---- MODULE Spec2Model ----
(***************************************************************************)
(* Fleet management service (src/main.py): the maintenance lifecycle over  *)
(* the fm_vehicles, fm_maintenances and fm_part_orders tables, and the     *)
(* outbound sync webhook fired after each committed mutation.              *)
(*                                                                         *)
(* Every endpoint is a sequence of database round trips made through its   *)
(* own SQLAlchemy session (get_db): query, commit (flush + COMMIT),        *)
(* refresh, then trigger_sync.  Each handler below is one operator that    *)
(* performs the round trip its program counter stands at.  Spec serves     *)
(* one request at a time, a whole handler per step; SpecConc interleaves   *)
(* the round trips of overlapping requests.                                *)
(***************************************************************************)
EXTENDS Integers, Sequences, FiniteSets, TLC

\* ------------------------------------------------------------------ bounds
\* vehicles seeded at startup (the program seeds 100)
SeedCount == 1
\* distinct VINs a caller may submit
NumVins == 1
\* requests served in a run of Spec
MaxRequests == 4
\* requests received in a run of SpecConc
MaxConcRequests == 2
\* mutations served before the read in a run of SpecList
MaxPopulate == 1
\* largest startIndex and batchSize a reader asks for
MaxWindow == 1

\* --------------------------------------------------------------- constants
IN_PROGRESS == 1
WAITING_FOR_PARTS == 2
COMPLETED == 3

\* Python None for an id argument, SQL NULL for a timestamp column
None == 0
NULL == "NULL"
\* datetime.utcnow(): the value is abstracted, only NULL / not NULL is kept
utcnow == "ts"

Vins == 1..NumVins
\* worker threads serving requests (sync endpoints run in a thread pool)
Workers == {"w1", "w2"}
\* what requests.post can do: a 2xx answer, a non-2xx answer (returned, not
\* raised: raise_for_status is never called), or an exception
Outcomes == {"ok", "non2xx", "network_error", "timeout"}
Ops == {"create_vehicle", "retire_vehicle", "start_maintenance", "order_parts",
        "complete_maintenance"}

VARIABLES db, reqs, scenario, arrived
vars == <<db, reqs, scenario, arrived>>

\* ------------------------------------------------------------------- rows
NoVehicle == [id |-> None, vin |-> 0, is_active |-> FALSE, is_deleted |-> FALSE,
              last_service_date |-> NULL]
NoMaint == [id |-> None, vehicle_id |-> None, status_id |-> 0, completed_on |-> NULL]
NoOrder == [id |-> None, maintenance_id |-> None]

\* .first() on a query that lost its filter
First_unfiltered(table, id, none) ==
  IF table # <<>> THEN table[1] ELSE none

\* query.filter(Model.id == id).first(): the row, or None
First(table, id, none) ==
  IF \E i \in DOMAIN table : table[i].id = id
  THEN table[CHOOSE i \in DOMAIN table : table[i].id = id]
  ELSE none

\* UPDATE table SET ... WHERE id = id, with row the new value of the row
UpdateRow(table, id, row) ==
  [i \in DOMAIN table |-> IF table[i].id = id THEN row ELSE table[i]]

\* The unit of work writes a column only when the value assigned differs
\* from the value the session loaded; otherwise the row keeps what is stored.
Flush(loaded, assigned, stored) ==
  IF assigned # loaded THEN assigned ELSE stored

\* ---------------------------------------------------------------- requests
EmptyPayload == [vehicleIds |-> <<>>, maintenanceIds |-> <<>>, partOrderIds |-> <<>>]

FirstPc(op) == IF op = "create_vehicle" THEN "commit" ELSE "query"

NewRequest(op, arg) ==
  [op |-> op, arg |-> arg, pc |-> FirstPc(op),
   ldV |-> NoVehicle, ldM |-> NoMaint, newId |-> None,
   committed |-> FALSE, status |-> "pending", result |-> NoVehicle,
   attempts |-> 0, payload |-> EmptyPayload, outcome |-> "none"]

IdleRequest == [NewRequest("none", None) EXCEPT !.pc = "idle"]

\* a missing row that is not reported: the handler goes on to its commit
Raise404_ignored(D, r) ==
  [db |-> D, r |-> [r EXCEPT !.pc = "commit"]]

\* raise HTTPException(404, ...): the session is closed with nothing flushed
Raise404(D, r) ==
  [db |-> D, r |-> [r EXCEPT !.status = "404", !.pc = "done"]]

\* an exception escaping db.commit(): the transaction is lost, the caller gets 500
Raise500(D, r) ==
  [db |-> D, r |-> [r EXCEPT !.status = "500", !.pc = "done"]]

\* `return obj` after trigger_sync: the response is the refreshed row
Return(r) == [r EXCEPT !.status = "200", !.pc = "done"]

\* trigger_sync retried after a failed attempt
trigger_sync_retry(r, vehicle_id, maintenance_id, part_order_id, o) ==
  LET payload == [vehicleIds |-> IF vehicle_id # None THEN <<vehicle_id>> ELSE <<>>,
                  maintenanceIds |-> IF maintenance_id # None THEN <<maintenance_id>> ELSE <<>>,
                  partOrderIds |-> IF part_order_id # None THEN <<part_order_id>> ELSE <<>>]
  IN IF payload = EmptyPayload THEN r
     ELSE [r EXCEPT !.attempts = IF o = "ok" THEN @ + 1 ELSE @ + 2,
                    !.payload = payload, !.outcome = o]

\* trigger_sync that lets a failed post escape to the caller
trigger_sync_raise(r, vehicle_id, maintenance_id, part_order_id, o) ==
  LET payload == [vehicleIds |-> IF vehicle_id # None THEN <<vehicle_id>> ELSE <<>>,
                  maintenanceIds |-> IF maintenance_id # None THEN <<maintenance_id>> ELSE <<>>,
                  partOrderIds |-> IF part_order_id # None THEN <<part_order_id>> ELSE <<>>]
  IN IF payload = EmptyPayload THEN r
     ELSE [r EXCEPT !.attempts = @ + 1, !.payload = payload, !.outcome = o,
                    !.result = IF o \in {"network_error", "timeout"} THEN NoVehicle ELSE @]

\* trigger_sync: one requests.post when the payload is not empty; whatever
\* the post does (answer, non-2xx answer, exception) is swallowed
trigger_sync(r, vehicle_id, maintenance_id, part_order_id, o) ==
  LET payload == [vehicleIds |-> IF vehicle_id # None THEN <<vehicle_id>> ELSE <<>>,
                  maintenanceIds |-> IF maintenance_id # None THEN <<maintenance_id>> ELSE <<>>,
                  partOrderIds |-> IF part_order_id # None THEN <<part_order_id>> ELSE <<>>]
  IN IF payload = EmptyPayload THEN r
     ELSE [r EXCEPT !.attempts = @ + 1, !.payload = payload, !.outcome = o]

\* ------------------------------------------------- what the handlers assign
\* Each operator gives the row an UPDATE leaves, from the row the session
\* loaded (ld) and the row stored when the transaction commits (cur).

\* retire_vehicle: is_deleted = True, is_active = False
RetiredVehicle(ld, cur) ==
  [cur EXCEPT !.is_deleted = Flush(ld.is_deleted, TRUE, @),
              !.is_active = Flush(ld.is_active, FALSE, @)]

\* start_maintenance that commits the new row and loses the vehicle update
StartedVehicle_lost(ld, cur) == cur

\* start_maintenance: vehicle.is_active = False
StartedVehicle(ld, cur) ==
  [cur EXCEPT !.is_active = Flush(ld.is_active, FALSE, @)]

\* order_parts without the test for a completed maintenance
OrderedMaint_unguarded(ld, cur) ==
  [cur EXCEPT !.status_id = Flush(ld.status_id, WAITING_FOR_PARTS, @)]

\* order_parts: status_id = WAITING_FOR_PARTS unless the maintenance loaded
\* is COMPLETED
OrderedMaint(ld, cur) ==
  IF ld.status_id # COMPLETED
  THEN [cur EXCEPT !.status_id = Flush(ld.status_id, WAITING_FOR_PARTS, @)]
  ELSE cur

\* complete_maintenance that reopens a maintenance it finds completed
CompletedMaint_reopen(ld, cur) ==
  [cur EXCEPT !.status_id = IF ld.status_id = COMPLETED THEN IN_PROGRESS
                            ELSE Flush(ld.status_id, COMPLETED, @),
              !.completed_on = utcnow]

\* complete_maintenance: status_id = COMPLETED, completed_on = utcnow()
CompletedMaint(ld, cur) ==
  [cur EXCEPT !.status_id = Flush(ld.status_id, COMPLETED, @),
              !.completed_on = utcnow]

\* complete_maintenance that reactivates the vehicle and forgets the timestamp
CompletedVehicle_no_date(ld, cur) ==
  [cur EXCEPT !.is_active = Flush(ld.is_active, TRUE, @)]

\* complete_maintenance: vehicle.is_active = True, last_service_date = utcnow()
CompletedVehicle(ld, cur) ==
  [cur EXCEPT !.is_active = Flush(ld.is_active, TRUE, @),
              !.last_service_date = utcnow]

\* ---------------------------------------------------------------- handlers
\* POST /vehicles/
create_vehicle(D, r, o) ==
  CASE r.pc = "commit" ->
         \* INSERT draws the next id from the sequence, which is not given
         \* back when the unique index on vin rejects the row
         LET new_id == D.vseq + 1
             new_vehicle == [id |-> new_id, vin |-> r.arg, is_active |-> TRUE,
                             is_deleted |-> FALSE, last_service_date |-> NULL]
         IN IF \E i \in DOMAIN D.vehicles : D.vehicles[i].vin = r.arg
            THEN Raise500([D EXCEPT !.vseq = new_id], r)
            ELSE [db |-> [D EXCEPT !.vseq = new_id,
                                   !.vehicles = Append(@, new_vehicle)],
                  r |-> [r EXCEPT !.newId = new_id, !.committed = TRUE,
                                  !.pc = "respond"]]
    [] r.pc = "respond" ->
         [db |-> D,
          r |-> Return(trigger_sync([r EXCEPT !.result = First(D.vehicles, r.newId, NoVehicle)],
                                    r.newId, None, None, o))]

\* PUT /vehicles/{vehicle_id}/retire
retire_vehicle(D, r, o) ==
  CASE r.pc = "query" ->
         LET vehicle == First(D.vehicles, r.arg, NoVehicle)
         IN IF vehicle = NoVehicle THEN Raise404(D, r)
            ELSE [db |-> D, r |-> [r EXCEPT !.ldV = vehicle, !.pc = "commit"]]
    [] r.pc = "commit" ->
         LET cur == First(D.vehicles, r.ldV.id, NoVehicle)
         IN [db |-> [D EXCEPT !.vehicles =
                                UpdateRow(@, cur.id, RetiredVehicle(r.ldV, cur))],
             r |-> [r EXCEPT !.committed = TRUE, !.pc = "respond"]]
    [] r.pc = "respond" ->
         [db |-> D,
          r |-> Return(trigger_sync([r EXCEPT !.result = First(D.vehicles, r.ldV.id, NoVehicle)],
                                    r.ldV.id, None, None, o))]

\* POST /maintenance/start
start_maintenance(D, r, o) ==
  CASE r.pc = "query" ->
         LET vehicle == First(D.vehicles, r.arg, NoVehicle)
         IN IF vehicle = NoVehicle THEN Raise404(D, r)
            ELSE [db |-> D, r |-> [r EXCEPT !.ldV = vehicle, !.pc = "commit"]]
    [] r.pc = "commit" ->
         LET new_id == Len(D.maints) + 1
             new_maint == [id |-> new_id, vehicle_id |-> r.arg,
                           status_id |-> IN_PROGRESS, completed_on |-> NULL]
             cur == First(D.vehicles, r.ldV.id, NoVehicle)
         IN [db |-> [D EXCEPT !.maints = Append(@, new_maint),
                              !.vehicles =
                                UpdateRow(@, cur.id, StartedVehicle(r.ldV, cur))],
             r |-> [r EXCEPT !.newId = new_id, !.committed = TRUE,
                             !.pc = "respond"]]
    [] r.pc = "respond" ->
         [db |-> D,
          r |-> Return(trigger_sync([r EXCEPT !.result = First(D.maints, r.newId, NoMaint)],
                                    None, r.newId, None, o))]

\* POST /maintenance/parts
order_parts(D, r, o) ==
  CASE r.pc = "query" ->
         LET maint == First(D.maints, r.arg, NoMaint)
         IN IF maint = NoMaint THEN Raise404(D, r)
            ELSE [db |-> D, r |-> [r EXCEPT !.ldM = maint, !.pc = "commit"]]
    [] r.pc = "commit" ->
         LET new_id == Len(D.orders) + 1
             new_order == [id |-> new_id, maintenance_id |-> r.arg]
             cur == First(D.maints, r.ldM.id, NoMaint)
         IN [db |-> [D EXCEPT !.orders = Append(@, new_order),
                              !.maints =
                                UpdateRow(@, cur.id, OrderedMaint(r.ldM, cur))],
             r |-> [r EXCEPT !.newId = new_id, !.committed = TRUE,
                             !.pc = "respond"]]
    [] r.pc = "respond" ->
         [db |-> D,
          r |-> Return(trigger_sync([r EXCEPT !.result = First(D.orders, r.newId, NoOrder)],
                                    None, None, r.newId, o))]

\* PUT /maintenance/{maintenance_id}/complete
complete_maintenance(D, r, o) ==
  CASE r.pc = "query" ->
         LET maint == First(D.maints, r.arg, NoMaint)
         IN IF maint = NoMaint THEN Raise404(D, r)
            ELSE [db |-> D, r |-> [r EXCEPT !.ldM = maint, !.pc = "query2"]]
    [] r.pc = "query2" ->
         [db |-> D,
          r |-> [r EXCEPT !.ldV = First(D.vehicles, r.ldM.vehicle_id, NoVehicle),
                          !.pc = "commit"]]
    [] r.pc = "commit" ->
         LET curM == First(D.maints, r.ldM.id, NoMaint)
             curV == First(D.vehicles, r.ldV.id, NoVehicle)
         IN [db |-> [D EXCEPT !.maints =
                                UpdateRow(@, curM.id, CompletedMaint(r.ldM, curM)),
                              !.vehicles =
                                IF r.ldV # NoVehicle
                                THEN UpdateRow(@, curV.id, CompletedVehicle(r.ldV, curV))
                                ELSE @],
             r |-> [r EXCEPT !.committed = TRUE, !.pc = "respond"]]
    [] r.pc = "respond" ->
         [db |-> D,
          r |-> Return(trigger_sync([r EXCEPT !.result = First(D.maints, r.ldM.id, NoMaint)],
                                    None, r.ldM.id, None, o))]

\* the router: the next round trip of request r against database D
Handle(D, r, o) ==
  CASE r.op = "create_vehicle" -> create_vehicle(D, r, o)
    [] r.op = "retire_vehicle" -> retire_vehicle(D, r, o)
    [] r.op = "start_maintenance" -> start_maintenance(D, r, o)
    [] r.op = "order_parts" -> order_parts(D, r, o)
    [] r.op = "complete_maintenance" -> complete_maintenance(D, r, o)

\* a request served from arrival to response with nothing else in between
RECURSIVE Run(_, _, _)
Run(D, r, o) ==
  IF r.pc = "done" THEN [db |-> D, r |-> r]
  ELSE LET n == Handle(D, r, o) IN Run(n.db, n.r, o)

\* ------------------------------------------------------------------ startup
\* seed_database: vehicles with a random is_active, none retired, and an
\* in-progress maintenance for each inactive one
seed_database(active) ==
  LET vs == [i \in 1..SeedCount |->
               [id |-> i, vin |-> 0 - i, is_active |-> active[i],
                is_deleted |-> FALSE, last_service_date |-> utcnow]]
      inactive == SelectSeq(vs, LAMBDA v : ~v.is_active)
      ms == [j \in 1..Len(inactive) |->
               [id |-> j, vehicle_id |-> inactive[j].id,
                status_id |-> IN_PROGRESS, completed_on |-> NULL]]
  IN [vehicles |-> vs, maints |-> ms, orders |-> <<>>, vseq |-> SeedCount]

NoScenario == [stage |-> 0, vehicle |-> None, maint |-> None]

Init ==
  /\ \E active \in [1..SeedCount -> BOOLEAN] : db = seed_database(active)
  /\ reqs = [w \in Workers |-> IdleRequest]
  /\ scenario = NoScenario
  /\ arrived = 0

\* ------------------------------------------------------- request arguments
\* the ids issued so far and the first id never issued
VehicleIdArgs == 1..(db.vseq + 1)
MaintIdArgs == 1..(Len(db.maints) + 1)

\* the requests a client may send
Admissible(op, arg) ==
  CASE op = "create_vehicle" -> arg \in Vins
    [] op \in {"retire_vehicle", "start_maintenance"} -> arg \in VehicleIdArgs
    [] op \in {"order_parts", "complete_maintenance"} -> arg \in MaintIdArgs

\* ------------------------------------------------- the end-to-end scenario
\* how far the last requests served follow Register, Start, OrderParts,
\* Complete on one fresh vehicle with nothing in between
Track(s, r) ==
  CASE r.op = "create_vehicle" /\ r.status = "200" ->
         [stage |-> 1, vehicle |-> r.newId, maint |-> None]
    [] r.op = "start_maintenance" /\ r.status = "200"
         /\ s.stage = 1 /\ r.arg = s.vehicle ->
         [s EXCEPT !.stage = 2, !.maint = r.newId]
    [] r.op = "order_parts" /\ r.status = "200"
         /\ s.stage = 2 /\ r.arg = s.maint ->
         [s EXCEPT !.stage = 3]
    [] r.op = "complete_maintenance" /\ r.status = "200"
         /\ s.stage = 3 /\ r.arg = s.maint ->
         [s EXCEPT !.stage = 4]
    [] OTHER -> NoScenario

\* --------------------------------------------- Spec: one request at a time
SeqWorker == "w1"

\* request (op, arg) is served whole
Serve(op, arg, o) ==
  LET fin == Run(db, NewRequest(op, arg), o)
  IN /\ db' = fin.db
     /\ reqs' = [reqs EXCEPT ![SeqWorker] = fin.r]
     /\ scenario' = Track(scenario, fin.r)
     /\ arrived' = arrived + 1

RegisterVehicle ==
  \E vin \in Vins, o \in Outcomes :
    /\ arrived < MaxRequests
    /\ Admissible("create_vehicle", vin)
    /\ Serve("create_vehicle", vin, o)

RetireVehicle ==
  \E id \in VehicleIdArgs, o \in Outcomes :
    /\ arrived < MaxRequests
    /\ Admissible("retire_vehicle", id)
    /\ Serve("retire_vehicle", id, o)

StartMaintenance ==
  \E id \in VehicleIdArgs, o \in Outcomes :
    /\ arrived < MaxRequests
    /\ Admissible("start_maintenance", id)
    /\ Serve("start_maintenance", id, o)

OrderParts ==
  \E id \in MaintIdArgs, o \in Outcomes :
    /\ arrived < MaxRequests
    /\ Admissible("order_parts", id)
    /\ Serve("order_parts", id, o)

CompleteMaintenance ==
  \E id \in MaintIdArgs, o \in Outcomes :
    /\ arrived < MaxRequests
    /\ Admissible("complete_maintenance", id)
    /\ Serve("complete_maintenance", id, o)

Next ==
  \/ RegisterVehicle
  \/ RetireVehicle
  \/ StartMaintenance
  \/ OrderParts
  \/ CompleteMaintenance

Spec == Init /\ [][Next]_vars

\* ------------------------------------------ SpecConc: overlapping requests
\* one round trip of worker w's request
Step(w, o) ==
  LET n == Handle(db, reqs[w], o)
  IN /\ db' = n.db
     /\ reqs' = [reqs EXCEPT ![w] = n.r]
     /\ UNCHANGED <<scenario, arrived>>

\* a request arrives at a free worker and makes its first round trip
Receive(w) ==
  /\ reqs[w].pc \in {"idle", "done"}
  /\ arrived < MaxConcRequests
  /\ \E op \in Ops, arg \in VehicleIdArgs \cup MaintIdArgs \cup Vins :
       /\ Admissible(op, arg)
       /\ LET n == Handle(db, NewRequest(op, arg), "none")
          IN /\ db' = n.db
             /\ reqs' = [reqs EXCEPT ![w] = n.r]
             /\ arrived' = arrived + 1
             /\ UNCHANGED scenario

\* complete_maintenance's second query
LoadVehicle(w) == reqs[w].pc = "query2" /\ Step(w, "none")

\* db.commit()
Commit(w) == reqs[w].pc = "commit" /\ Step(w, "none")

\* db.refresh, trigger_sync and the response
Respond(w) == reqs[w].pc = "respond" /\ \E o \in Outcomes : Step(w, o)

NextConc ==
  \E w \in Workers :
    \/ Receive(w)
    \/ LoadVehicle(w)
    \/ Commit(w)
    \/ Respond(w)

SpecConc == Init /\ [][NextConc]_vars

\* ------------------------------------------------------ the read endpoints
ListOps == {"get_vehicles", "get_maintenance", "get_part_orders"}

\* the `ids` parameters a reader sends, each as the list ids.split(",") makes
\* of it: NoIds is the parameter left out, <<"">> the empty string, "9" an id
\* no row has, "abc" and "" (after a trailing comma) are no integers
NoIds == <<>>
IdsParams ==
  {NoIds, <<"">>, <<"1">>, <<"9">>, <<"1", "2">>, <<"2", "9">>, <<"1", "1">>,
   <<"abc">>, <<"1", "abc">>, <<"abc", "2">>, <<"1", "">>}

\* int(i): the number a decimal literal denotes; ValueError for any other text
IsInteger(t) == t \in {"1", "2", "9"}

int(t) == CASE t = "1" -> 1 [] t = "2" -> 2 [] t = "9" -> 9

\* a comprehension that skips the elements int() rejects
id_list_lenient(ids) ==
  LET good == SelectSeq(ids, IsInteger)
  IN [ok |-> TRUE, ids |-> [k \in DOMAIN good |-> int(good[k])]]

\* [int(i) for i in ids.split(",")]: the list of numbers, or ValueError raised
\* by the first element that is no integer
id_list(ids) ==
  IF \A k \in DOMAIN ids : IsInteger(ids[k])
  THEN [ok |-> TRUE, ids |-> [k \in DOMAIN ids |-> int(ids[k])]]
  ELSE [ok |-> FALSE, ids |-> <<>>]

\* a query whose filter is never applied
Filtered_all(rows, ids) == rows

\* `if ids:` try: query.filter(Model.id.in_(id_list)) except ValueError: pass
Filtered(rows, ids) ==
  IF ids \notin {NoIds, <<"">>} /\ id_list(ids).ok
  THEN SelectSeq(rows, LAMBDA row :
                   \E k \in DOMAIN id_list(ids).ids : id_list(ids).ids[k] = row.id)
  ELSE rows

\* the orders in which a scan of n rows without ORDER BY may yield them
Perms(n) ==
  {f \in [1..n -> 1..n] : \A a, b \in 1..n : f[a] = f[b] => a = b}

Scan(table, order) == [k \in DOMAIN table |-> table[order[k]]]

\* .offset(startIndex).limit(batchSize).all()
Page(rows, startIndex, batchSize) ==
  LET end == IF startIndex + batchSize < Len(rows)
             THEN startIndex + batchSize ELSE Len(rows)
  IN SubSeq(rows, startIndex + 1, end)

\* the body the three list handlers share
ListRows(table, r, order) ==
  [r EXCEPT !.result = Page(Filtered(Scan(table, order), r.arg.ids),
                            r.arg.startIndex, r.arg.batchSize),
            !.status = "200", !.pc = "done"]

\* GET /vehicles/
get_vehicles(D, r, order) == [db |-> D, r |-> ListRows(D.vehicles, r, order)]

\* GET /maintenance/
get_maintenance(D, r, order) == [db |-> D, r |-> ListRows(D.maints, r, order)]

\* GET /part-orders/
get_part_orders(D, r, order) == [db |-> D, r |-> ListRows(D.orders, r, order)]

\* GET /fleet-fabric/sync: the count query is answered, then building the
\* joinedload option reads VehicleModel.maintenance_logs, an attribute the
\* class does not have (MaintenanceModel.vehicle declares no backref):
\* AttributeError, answered 500
get_hierarchical_fleet(D, r) == Raise500(D, r)

\* ---------------------------------- SpecList: mutations, then one read
\* A read changes no row, so the requests after it see what they would have
\* seen without it: a run of SpecList serves its read last.
Listed == reqs[SeqWorker].op \in ListOps \cup {"get_hierarchical_fleet"}

ListParams ==
  [startIndex : 0..MaxWindow, batchSize : 0..MaxWindow, ids : IdsParams]

Answer(n) ==
  /\ db' = n.db
  /\ reqs' = [reqs EXCEPT ![SeqWorker] = n.r]
  /\ UNCHANGED <<scenario, arrived>>

Populate ==
  \E op \in Ops, arg \in VehicleIdArgs \cup MaintIdArgs \cup Vins :
    /\ ~Listed
    /\ arrived < MaxPopulate
    /\ Admissible(op, arg)
    /\ Serve(op, arg, "ok")

ListVehicles ==
  \E arg \in ListParams, order \in Perms(Len(db.vehicles)) :
    /\ ~Listed
    /\ Answer(get_vehicles(db, NewRequest("get_vehicles", arg), order))

ListMaintenance ==
  \E arg \in ListParams, order \in Perms(Len(db.maints)) :
    /\ ~Listed
    /\ Answer(get_maintenance(db, NewRequest("get_maintenance", arg), order))

ListPartOrders ==
  \E arg \in ListParams, order \in Perms(Len(db.orders)) :
    /\ ~Listed
    /\ Answer(get_part_orders(db, NewRequest("get_part_orders", arg), order))

HierarchicalSync ==
  \E startIndex, batchSize \in 0..MaxWindow :
    /\ ~Listed
    /\ Answer(get_hierarchical_fleet(db,
                NewRequest("get_hierarchical_fleet",
                           [startIndex |-> startIndex, batchSize |-> batchSize,
                            ids |-> NoIds])))

NextList ==
  \/ Populate
  \/ ListVehicles
  \/ ListMaintenance
  \/ ListPartOrders
  \/ HierarchicalSync

SpecList == Init /\ [][NextList]_vars

\* ------------------------------------------------------------- properties
\* the stored row with a given id, read off the table itself
HasId(table, id) == \E i \in DOMAIN table : table[i].id = id

RowIn(table, id, none) ==
  IF HasId(table, id)
  THEN table[CHOOSE i \in DOMAIN table : table[i].id = id]
  ELSE none

Vehicle(id) == RowIn(db.vehicles, id, NoVehicle)

Maint(id) == RowIn(db.maints, id, NoMaint)

\* the maintenance records of vehicle v that are not completed
OpenMaints(v) ==
  {i \in DOMAIN db.maints :
     db.maints[i].vehicle_id = v /\ db.maints[i].status_id # COMPLETED}

\* the request Spec served in the last step
last == reqs[SeqWorker]

\* C1: every retired vehicle (is_deleted) is inactive (is_active = FALSE), in
\* every state any sequence of lifecycle calls reaches; completing a
\* maintenance of a vehicle retired in the meantime does not set it active.
C1_RetiredNeverActive ==
  \A i \in DOMAIN db.vehicles :
    db.vehicles[i].is_deleted => ~db.vehicles[i].is_active

\* C2: a vehicle created through RegisterVehicle that has a maintenance record
\* not yet completed is inactive, and one that is not retired and has no such
\* record is active.
C2_ActiveXorUnderMaintenance ==
  \A i \in DOMAIN db.vehicles :
    LET v == db.vehicles[i]
    IN v.vin \in Vins =>
         /\ OpenMaints(v.id) # {} => ~v.is_active
         /\ (~v.is_deleted /\ OpenMaints(v.id) = {}) => v.is_active

\* C3: StartMaintenance on an existing vehicle whose active flag is false is
\* refused: the request never commits, so no maintenance record is created
\* and the vehicle is left as it was.
C3_StartOnInactiveRefused ==
  \A w \in Workers :
    (/\ reqs[w].op = "start_maintenance"
     /\ reqs[w].ldV # NoVehicle
     /\ ~reqs[w].ldV.is_active)
    => ~reqs[w].committed

\* C4: OrderParts against a completed maintenance inserts the part order and
\* leaves the status completed; against a maintenance that is in progress or
\* waiting for parts it inserts the part order and sets the status to
\* waiting-for-parts.
C4_OrderPartsStatus ==
  [][LET r == reqs'[SeqWorker]
         before == Maint(r.arg)
         after == RowIn(db'.maints, r.arg, NoMaint)
     IN (r.op = "order_parts" /\ before # NoMaint) =>
          /\ r.status = "200"
          /\ db'.orders = Append(db.orders, [id |-> Len(db.orders) + 1,
                                             maintenance_id |-> r.arg])
          /\ after.status_id = IF before.status_id = COMPLETED
                               THEN COMPLETED
                               ELSE WAITING_FOR_PARTS]_vars

\* a part order was placed against a completed maintenance, which stayed completed
C4_Witness ==
  /\ last.op = "order_parts"
  /\ last.status = "200"
  /\ last.ldM.status_id = COMPLETED
  /\ Maint(last.arg).status_id = COMPLETED
  /\ \E i \in DOMAIN db.orders : db.orders[i].maintenance_id = last.arg

\* C5: completed is terminal under every interleaving: a maintenance whose
\* committed status is completed is completed in every later state, also
\* when an OrderParts and a CompleteMaintenance for it overlap.
C5_CompletedIsTerminal ==
  [][\A i \in DOMAIN db.maints :
       db.maints[i].status_id = COMPLETED =>
         db'.maints[i].status_id = COMPLETED]_vars

\* C6: on a vehicle just registered (active, not retired), StartMaintenance,
\* OrderParts, CompleteMaintenance with nothing in between give in order:
\* maintenance in progress and vehicle inactive; maintenance waiting for
\* parts; maintenance completed, vehicle active and last-service date set.
C6_EndToEnd ==
  LET v == Vehicle(scenario.vehicle)
      m == Maint(scenario.maint)
  IN /\ scenario.stage = 1 => v.is_active /\ ~v.is_deleted
     /\ scenario.stage = 2 =>
          m.vehicle_id = v.id /\ m.status_id = IN_PROGRESS /\ ~v.is_active
     /\ scenario.stage = 3 => m.status_id = WAITING_FOR_PARTS
     /\ scenario.stage = 4 =>
          /\ m.status_id = COMPLETED
          /\ v.is_active
          /\ v.last_service_date # NULL

\* the scenario ran to its end
C6_Witness ==
  /\ scenario.stage = 4
  /\ last.op = "complete_maintenance"
  /\ Maint(scenario.maint).status_id = COMPLETED

\* C7: RetireVehicle and StartMaintenance with a vehicle id that does not
\* exist, and OrderParts and CompleteMaintenance with a maintenance id that
\* does not exist, fail with 404 and change no row, insert no row and send
\* no notification.
C7_NotFoundAppliesNothing ==
  [][LET r == reqs'[SeqWorker]
         missing ==
           \/ /\ r.op \in {"retire_vehicle", "start_maintenance"}
              /\ Vehicle(r.arg) = NoVehicle
           \/ /\ r.op \in {"order_parts", "complete_maintenance"}
              /\ Maint(r.arg) = NoMaint
     IN missing =>
          /\ r.status = "404"
          /\ db' = db
          /\ ~r.committed
          /\ r.attempts = 0]_vars

\* an OrderParts for a maintenance id that does not exist was answered 404
C7_Witness ==
  /\ last.op = "order_parts"
  /\ last.status = "404"
  /\ Maint(last.arg) = NoMaint
  /\ last.attempts = 0
  /\ db.vehicles # <<>>

\* worker w's transaction commits in this step
Commits(w) == reqs[w].pc # "respond" /\ reqs'[w].pc = "respond"

C9_NotifyOnceAfterCommit ==
  \A w \in Workers :
    /\ reqs[w].attempts <= 1
    /\ reqs[w].attempts = 1 => reqs[w].committed /\ reqs[w].status = "200"
    /\ reqs[w].status \in {"404", "500"} => reqs[w].attempts = 0
    /\ reqs[w].pc \in {"query", "query2", "commit", "respond"} =>
         reqs[w].attempts = 0

\* one committed request was notified once and the attempt timed out, while
\* a request whose commit failed was not notified
C9_Witness ==
  \E w, x \in Workers :
    /\ reqs[w].committed
    /\ reqs[w].attempts = 1
    /\ reqs[w].outcome = "timeout"
    /\ reqs[x].status = "500"
    /\ reqs[x].attempts = 0

\* C10: the outcome of the notification attempt changes nothing: from the
\* same state the same request leaves the same rows and returns the same
\* response whether the post succeeds, is answered with an error status,
\* fails on the network or times out; the caller of a committed request is
\* answered 200 with the refreshed row.
C10_OutcomeIndependent ==
  [][\A w \in Workers :
       reqs[w].pc = "respond" /\ reqs'[w].pc = "done" =>
         /\ db' = db
         /\ reqs'[w].status = "200"
         /\ reqs'[w].result.id # None
         /\ \A o \in Outcomes :
              LET alt == Handle(db, reqs[w], o)
              IN /\ alt.db = db'
                 /\ alt.r.status = reqs'[w].status
                 /\ alt.r.result = reqs'[w].result]_vars

\* a request was committed and answered 200 although its notification failed
C10_Witness ==
  \E w \in Workers :
    /\ reqs[w].committed
    /\ reqs[w].attempts = 1
    /\ reqs[w].outcome = "network_error"
    /\ reqs[w].status = "200"
    /\ reqs[w].result.id # None

\* C11: the notification of a committed mutation names every record the
\* mutation inserted or modified, by entity type: StartMaintenance the new
\* maintenance and the vehicle, OrderParts the new part order and its
\* maintenance, CompleteMaintenance the maintenance and its vehicle,
\* RegisterVehicle and RetireVehicle the vehicle.
C11_NotifiesEveryChangedRecord ==
  last.status = "200" =>
    last.payload =
      CASE last.op = "create_vehicle" ->
             [EmptyPayload EXCEPT !.vehicleIds = <<last.newId>>]
        [] last.op = "retire_vehicle" ->
             [EmptyPayload EXCEPT !.vehicleIds = <<last.arg>>]
        [] last.op = "start_maintenance" ->
             [EmptyPayload EXCEPT !.maintenanceIds = <<last.newId>>,
                                  !.vehicleIds = <<last.arg>>]
        [] last.op = "order_parts" ->
             [EmptyPayload EXCEPT !.partOrderIds = <<last.newId>>,
                                  !.maintenanceIds = <<last.arg>>]
        [] last.op = "complete_maintenance" ->
             [EmptyPayload EXCEPT !.maintenanceIds = <<last.arg>>,
                                  !.vehicleIds = <<last.ldM.vehicle_id>>]

\* C12: every vehicle has at most one maintenance record that is not
\* completed, also when two StartMaintenance requests for it follow each
\* other or overlap.
C12_OneOpenMaintenance ==
  \A i \in DOMAIN db.vehicles :
    Cardinality(OpenMaints(db.vehicles[i].id)) <= 1

\* C13: retirement is terminal: a retired vehicle stays retired in every
\* later state and no maintenance record is created for it.
C13_RetirementIsTerminal ==
  [][\A i \in DOMAIN db.vehicles :
       db.vehicles[i].is_deleted =>
         /\ db'.vehicles[i].is_deleted
         /\ \A j \in DOMAIN db'.maints :
              db'.maints[j].vehicle_id = db.vehicles[i].id =>
                j \in DOMAIN db.maints]_vars

\* C14: CompleteMaintenance on a maintenance that is already completed is
\* answered 200 and leaves the status completed: the status after a second
\* consecutive call is the status after the first.
C14_CompleteIsIdempotent ==
  [][LET r == reqs'[SeqWorker]
         before == Maint(r.arg)
         after == RowIn(db'.maints, r.arg, NoMaint)
     IN (r.op = "complete_maintenance" /\ before.status_id = COMPLETED) =>
          /\ r.status = "200"
          /\ after.status_id = COMPLETED
          /\ after.status_id = before.status_id
          /\ after.completed_on # NULL]_vars

\* a maintenance that was loaded completed has been completed again
C14_Witness ==
  /\ last.op = "complete_maintenance"
  /\ last.status = "200"
  /\ last.ldM.status_id = COMPLETED
  /\ last.result.status_id = COMPLETED
  /\ Maint(last.arg).status_id = COMPLETED

\* C15: every part order references an existing maintenance record: a part
\* order is inserted only for a maintenance that exists, no step removes a
\* maintenance record and no step changes a stored part order.
C15_PartOrderReferencesMaintenance ==
  [][/\ \A i \in DOMAIN db'.orders :
          HasId(db'.maints, db'.orders[i].maintenance_id)
     /\ \A j \in DOMAIN db.maints :
          j \in DOMAIN db'.maints /\ db'.maints[j].id = db.maints[j].id
     /\ \A i \in DOMAIN db.orders :
          i \in DOMAIN db'.orders /\ db'.orders[i] = db.orders[i]]_vars

\* a part order is stored for a maintenance while another OrderParts for a
\* maintenance id that does not exist was refused
C15_Witness ==
  \E w, x \in Workers :
    /\ reqs[w].op = "order_parts"
    /\ reqs[w].committed
    /\ \E i \in DOMAIN db.orders :
         /\ db.orders[i].id = reqs[w].newId
         /\ HasId(db.maints, db.orders[i].maintenance_id)
    /\ reqs[x].op = "order_parts"
    /\ reqs[x].status = "404"

\* the table a list request reads
TableOf(op) ==
  CASE op = "get_vehicles" -> db.vehicles
    [] op = "get_maintenance" -> db.maints
    [] op = "get_part_orders" -> db.orders

\* an ids parameter made of integers only, and the set of ids it names
WellFormed(ids) == ids # NoIds /\ \A k \in DOMAIN ids : IsInteger(ids[k])

Malformed(ids) == ids # NoIds /\ \E k \in DOMAIN ids : ~IsInteger(ids[k])

Wanted(ids) == {int(ids[k]) : k \in DOMAIN ids}

\* C16: a list request with a well-formed id filter is answered 200 with
\* stored rows whose id is in the filter, none of them twice, as many as the
\* startIndex/batchSize window leaves of all the rows with such an id; an id
\* in the filter that no row has is skipped.
C16_ListFilters ==
  [][LET r == reqs'[SeqWorker]
         table == TableOf(r.op)
         matching == {i \in DOMAIN table : table[i].id \in Wanted(r.arg.ids)}
         left == Cardinality(matching) - r.arg.startIndex
     IN (r.op \in ListOps /\ WellFormed(r.arg.ids)) =>
          /\ r.status = "200"
          /\ db' = db
          /\ \A k \in DOMAIN r.result :
               \E i \in matching : r.result[k] = table[i]
          /\ \A k, l \in DOMAIN r.result :
               r.result[k].id = r.result[l].id => k = l
          /\ Len(r.result) =
               IF left <= 0 THEN 0
               ELSE IF left < r.arg.batchSize THEN left ELSE r.arg.batchSize]_vars

\* a filter naming a stored id and an id no row has returned the one row,
\* out of a table with more rows
C16_Witness ==
  /\ last.op \in ListOps
  /\ last.arg.ids = <<"2", "9">>
  /\ last.status = "200"
  /\ Len(last.result) = 1
  /\ last.result[1].id = 2
  /\ Len(TableOf(last.op)) > 1

\* C17: a list request whose id filter has an element that is no integer
\* (alone or beside integers) is answered 200 with a result the same request
\* without the filter gives.
C17_MalformedFilterIgnored ==
  [][LET r == reqs'[SeqWorker]
         table == TableOf(r.op)
         unfiltered == [r.arg EXCEPT !.ids = NoIds]
     IN (r.op \in ListOps /\ Malformed(r.arg.ids)) =>
          /\ r.status = "200"
          /\ db' = db
          /\ \E order \in Perms(Len(table)) :
               r.result = ListRows(table, NewRequest(r.op, unfiltered), order).result
          /\ Len(r.result) =
               LET left == Len(table) - r.arg.startIndex
               IN IF left <= 0 THEN 0
                  ELSE IF left < r.arg.batchSize THEN left ELSE r.arg.batchSize]_vars

\* a filter mixing an integer and a word returned a row the integer does
\* not name
C17_Witness ==
  /\ last.op \in ListOps
  /\ last.arg.ids = <<"1", "abc">>
  /\ last.status = "200"
  /\ \E k \in DOMAIN last.result : last.result[k].id = 2

\* C18: HierarchicalSync succeeds in every reachable state and returns the
\* total number of vehicles and, for every vehicle of the page, the
\* maintenance records of that vehicle, each with the part orders of that
\* maintenance.
C18_HierarchicalSyncNested ==
  last.op = "get_hierarchical_fleet" =>
    /\ last.status = "200"
    /\ last.result.totalCount = Len(db.vehicles)
    /\ \A k \in DOMAIN last.result.data :
         LET v == last.result.data[k]
         IN /\ HasId(db.vehicles, v.id)
            /\ {m.id : m \in v.maintenance} =
                 {db.maints[j].id : j \in {j \in DOMAIN db.maints :
                                             db.maints[j].vehicle_id = v.id}}
            /\ \A m \in v.maintenance :
                 m.part_orders =
                   {db.orders[i].id : i \in {i \in DOMAIN db.orders :
                                               db.orders[i].maintenance_id = m.id}}

\* C19: every maintenance is created in progress, and a status changes only
\* from in-progress to waiting-for-parts in a step that commits an OrderParts,
\* or from in-progress or waiting-for-parts to completed in a step that
\* commits a CompleteMaintenance.
C19_StatusTransitions ==
  [][/\ \A j \in DOMAIN db'.maints :
          j \notin DOMAIN db.maints => db'.maints[j].status_id = IN_PROGRESS
     /\ \A j \in DOMAIN db.maints :
          LET from == db.maints[j].status_id
              to == db'.maints[j].status_id
          IN from # to =>
               \/ /\ from = IN_PROGRESS
                  /\ to = WAITING_FOR_PARTS
                  /\ \E w \in Workers :
                       Commits(w) /\ reqs'[w].op = "order_parts"
               \/ /\ from \in {IN_PROGRESS, WAITING_FOR_PARTS}
                  /\ to = COMPLETED
                  /\ \E w \in Workers :
                       Commits(w) /\ reqs'[w].op = "complete_maintenance"]_vars

\* C20: a maintenance record is completed exactly when its completed
\* timestamp is set.
C20_CompletedIffTimestamp ==
  \A j \in DOMAIN db.maints :
    db.maints[j].status_id = COMPLETED <=> db.maints[j].completed_on # NULL

====
